---- MODULE Spec2Model ----
(***************************************************************************)
(* CSCSegAlgoDF (RecoLocalMuon/CSCSegment/src/CSCSegAlgoDF.cc): the        *)
(* segment builder of one CSC chamber as a state machine.                  *)
(*                                                                         *)
(* One behaviour is one call of run() on one chamber.  The state is the    *)
(* algorithm object's members (usedHits, protoSegment, closeHits,          *)
(* protoChi2, protoIntercept, protoSlope_u, protoSlope_v, protoDirection), *)
(* the locals of buildSegments (rechits, layerIndex, the iterators i1 and  *)
(* i2, segmentInChamber), the position in the code (pc) and the iterator   *)
(* of the second pass of tryAddingHitsToSegment (ic).                      *)
(*                                                                         *)
(* Numbers are exact rationals <<numerator, denominator>>: the fit is the  *)
(* least-squares fit of the code without floating-point rounding.          *)
(*                                                                         *)
(* Spec is one call of run().  SpecSequential is three calls on one        *)
(* object, SpecNormalizer the ordering step of buildSegments applied again *)
(* and again, SpecError the reordering at the end of calculateError.       *)
(***************************************************************************)
EXTENDS Integers, Sequences, FiniteSets, TLC

(***************************************************************************)
(* Bounds of the model.                                                    *)
(***************************************************************************)
\* Chambers of 0..MaxFewHits rechits are all tried, and the chambers around
\* the two occupancy thresholds of buildSegments (20, 21, 30 and 31 rechits).
MaxFewHits == 8
\* Largest distance, in strip units, between two neighbouring tracks.
MaxPitch == 2
\* Most applications of the ordering step of buildSegments to one hit list.
MaxNormalizations == 3
\* Largest entry of the matrices given to the reordering of calculateError,
\* and most applications of the reordering to one matrix.
MaxEntry == 1
MaxReorders == 2

(***************************************************************************)
(* Constants of the code.                                                  *)
(***************************************************************************)
\* buildSegments: "if ( nHitInChamber < 3 ) return segmentInChamber;"
MinHitsInChamber == 3
\* buildSegments: "( nHitInChamber > 20 )? iadd = 1 : 0"
BusyChamber == 20
\* buildSegments: "if (nHitInChamber > 30 ) iadd++;"
VeryBusyChamber == 30
\* buildSegments: "if (nHitInChamber-protoSegment.size() < 3) return"
MinHitsLeft == 3
\* buildSegments: "if (segmentInChamber.size() > 4) return"
MaxSegmentsBeforeReturn == 4
\* theChamber->layer(1) ... theChamber->layer(6)
NLayers == 6

\* Configuration read by the constructor (values of the model's runs).
tanThetaMax == 1
tanPhiMax == 1
dRPhiFineMax == 3
dPhiFineMax == 2

(***************************************************************************)
(* Exact rational arithmetic.                                              *)
(***************************************************************************)
Abs(x) == IF x < 0 THEN -x ELSE x

RECURSIVE Gcd(_, _)
Gcd(a, b) == IF b = 0 THEN a ELSE Gcd(b, a % b)

\* n/d in lowest terms with a positive denominator (d # 0).
Rat(n, d) ==
  LET g == Gcd(Abs(n), Abs(d))
      s == IF d < 0 THEN -1 ELSE 1
  IN  << (s * n) \div g, (s * d) \div g >>

RInt(n) == << n, 1 >>
Lcm(a, b) == (a \div Gcd(a, b)) * b
RAdd(a, b) ==
  LET l == Lcm(a[2], b[2])
  IN  Rat(a[1] * (l \div a[2]) + b[1] * (l \div b[2]), l)
RMul(a, b) ==
  LET g1 == Gcd(Abs(a[1]), b[2])
      g2 == Gcd(Abs(b[1]), a[2])
  IN  Rat((a[1] \div g1) * (b[1] \div g2), (a[2] \div g2) * (b[2] \div g1))
RAbs(a) == << Abs(a[1]), a[2] >>
RLess(a, b) ==
  LET l == Lcm(a[2], b[2])
  IN  a[1] * (l \div a[2]) < b[1] * (l \div b[2])
RGreater(a, b) == RLess(b, a)
RLeq(a, b) == ~RLess(b, a)

(***************************************************************************)
(* The chamber, its layers and the rechits (CSCChamber, CSCLayer and       *)
(* CSCRecHit2D are used by the code through their accessors only).         *)
(*                                                                         *)
(* z1 and z6 are the global z of layers 1 and 6; the layers are 2 units    *)
(* apart and the chamber frame has its origin in the middle of the stack.  *)
(* In a staggered chamber the frames of the odd layers are shifted by      *)
(* XStagger along local x and the frames of layers 4..6 by YStep along     *)
(* local y.  The chamber is far from the beam line, so the arc R*deltaPhi  *)
(* between two points of one layer is their distance along local x.        *)
(***************************************************************************)
XStagger == 7
YStep == 5
RChamber == 1

Chambers ==
  [ z1 : {10, 20, -10, -20}, z6 : {10, 20, -10, -20}, stag : BOOLEAN ]

ValidChamber(ch) == Abs(ch.z1) # Abs(ch.z6) /\ ch.z1 * ch.z6 > 0

\* theChamber->layer(l)->position().z()
layerZ(ch, l) == ch.z1 + (l - 1) * ((ch.z6 - ch.z1) \div 5)
\* z of the chamber's origin
chamberZ(ch) == (ch.z1 + ch.z6) \div 2
\* theChamber->toLocal(theChamber->layer(l)->toGlobal(p)) of a point p = (x, y, 0)
\* of layer l: the chamber-local coordinates
toChamberX(ch, l, x) == x + (IF ch.stag THEN XStagger * (l % 2) ELSE 0)
toChamberY(ch, l, y) == y + (IF ch.stag /\ l >= 4 THEN YStep ELSE 0)
toChamberZ(ch, l) == layerZ(ch, l) - chamberZ(ch)

\* AlgebraicSymMatrix keeps one value for a(i, j) and a(j, i): the entries
\* stored for a 4x4 matrix, and the stored entry that a(i, j) names.
SymEntries == { << i, j >> : i \in 1 .. 4, j \in 1 .. 4 } \ { e \in (1 .. 4) \X (1 .. 4) : e[1] < e[2] }
symEntry(i, j) == IF i >= j THEN << i, j >> ELSE << j, i >>

\* the value of a(i, j) and the matrix after "a(i, j) = v"
entry(a, i, j) == a[symEntry(i, j)]
assign(a, i, j, v) == [ a EXCEPT ![symEntry(i, j)] = v ]

\* calculateError, lines 526-538, without the copy of a in hold
reorderInPlace(a) ==
  LET a1 == assign(a,  1, 1, entry(a,  3, 3))
      a2 == assign(a1, 1, 2, entry(a1, 3, 4))
      a3 == assign(a2, 2, 1, entry(a2, 4, 3))
      a4 == assign(a3, 2, 2, entry(a3, 4, 4))
      a5 == assign(a4, 3, 3, entry(a4, 1, 1))
      a6 == assign(a5, 3, 4, entry(a5, 1, 2))
      a7 == assign(a6, 4, 3, entry(a6, 2, 1))
  IN  assign(a7, 4, 4, entry(a7, 2, 2))

\* calculateError, lines 526-538: the eight assignments, in the code's order
reorder(a) ==
  LET hold == a
      a1 == assign(a,  1, 1, entry(hold, 3, 3))
      a2 == assign(a1, 1, 2, entry(hold, 3, 4))
      a3 == assign(a2, 2, 1, entry(hold, 4, 3))
      a4 == assign(a3, 2, 2, entry(hold, 4, 4))
      a5 == assign(a4, 3, 3, entry(hold, 1, 1))
      a6 == assign(a5, 3, 4, entry(hold, 1, 2))
      a7 == assign(a6, 4, 3, entry(hold, 2, 1))
  IN  assign(a7, 4, 4, entry(hold, 2, 2))

VARIABLES
  pc,               \* position in run() / buildSegments / tryAddingHitsToSegment
  theChamber,       \* the chamber of this call
  nHitInChamber,    \* rechits.size() at entry
  pitch,            \* distance between neighbouring tracks of the chamber
  rechits,          \* the hits in working order: a sequence of hit identities
  layerIndex,       \* the layer of the hit at each position of rechits
  minLayersApart,   \* configuration
  minHitsPerSegment,\* configuration
  usedHits,         \* member: one flag per position of rechits
  protoSegment,     \* member: sequence of hit identities
  closeHits,        \* member: sequence of hit identities
  protoChi2,        \* member
  protoIntercept,   \* member: << x, y >>
  protoSlope_u,     \* member
  protoSlope_v,     \* member
  protoDirection,   \* member: << dx, dy, dz >> up to its (positive) norm
  i1, i2,           \* the seed iterators of buildSegments (positions, from 1)
  ic,               \* the iterator of the second pass over closeHits
  segmentInChamber, \* the segments built so far
  old,              \* the locals of the last call of compareProtoSegment
  addFailed,        \* addHit has returned false in this call of run()
  last,             \* the step taken last
  entered,          \* the hits that entered the building of the proto segment
  seedPairs,        \* the passes made through the body of the loop over i2
  errorMatrix,      \* calculateError: the matrix a, a map of its stored entries
  history           \* the values before each earlier application or call

vars ==
  << pc, theChamber, nHitInChamber, pitch, rechits, layerIndex, minLayersApart,
     minHitsPerSegment, usedHits, protoSegment, closeHits, protoChi2,
     protoIntercept, protoSlope_u, protoSlope_v, protoDirection, i1, i2, ic,
     segmentInChamber, old, addFailed, last, entered, seedPairs, errorMatrix,
     history >>

\* what the steps of buildSegments leave alone
aside == << errorMatrix, history >>

(***************************************************************************)
(* The rechits of a chamber.  A hit is known by its identity h (the        *)
(* pointer in the code), 1..nHitInChamber, all distinct.  The hits arrive  *)
(* sorted by layer, as the rechit collection is; the hits of one layer lie *)
(* on parallel tracks `pitch' apart.  Each hit has the unit covariance     *)
(* (xx = yy = 1, xy = 0).                                                  *)
(***************************************************************************)
NTracks == (nHitInChamber + NLayers - 1) \div NLayers
\* h->cscDetId().layer()
hitLayer(h) == 1 + (h - 1) \div NTracks
\* h->localPosition().x() and .y()
hitU(h) == pitch * ((h - 1) % NTracks)
hitV(h) == 0
\* chamber-local coordinates of hit h
hitX(h) == toChamberX(theChamber, hitLayer(h), hitU(h))
hitY(h) == toChamberY(theChamber, hitLayer(h), hitV(h))
hitZ(h) == toChamberZ(theChamber, hitLayer(h))

HitCounts ==
  (0 .. MaxFewHits) \cup
  { BusyChamber, BusyChamber + 1, VeryBusyChamber, VeryBusyChamber + 1 }

(***************************************************************************)
(* Helpers on sequences.                                                   *)
(***************************************************************************)
Range(s) == { s[k] : k \in 1 .. Len(s) }
Reverse(s) == [ k \in 1 .. Len(s) |-> s[Len(s) + 1 - k] ]
Sum(F(_), s) ==
  LET S[k \in 0 .. Len(s)] == IF k = 0 THEN 0 ELSE S[k - 1] + F(s[k])
  IN  S[Len(s)]
(***************************************************************************)
(* updateParameters: the least-squares fit of the hits of seg.             *)
(* IC is the inverse of the hit's covariance; with IC(1,2) = 0 the 4x4     *)
(* system M p = B is two 2x2 systems, solved here by Cramer's rule:        *)
(* p(1) = P1/Du, p(3) = P3/Du, p(2) = P2/Dv, p(4) = P4/Dv.  The residual   *)
(* du of a hit is then (P1 + P3 z - Du u)/Du, and dv likewise.             *)
(***************************************************************************)
IC11(h) == 1
IC12(h) == 0
IC22(h) == 1

normalEquations(seg) ==
  [ M11 |-> Sum(LAMBDA h : IC11(h), seg),
    M13 |-> Sum(LAMBDA h : IC11(h) * hitZ(h), seg),
    M33 |-> Sum(LAMBDA h : IC11(h) * hitZ(h) * hitZ(h), seg),
    B1  |-> Sum(LAMBDA h : hitX(h) * IC11(h) + hitY(h) * IC12(h), seg),
    B3  |-> Sum(LAMBDA h : (hitX(h) * IC11(h) + hitY(h) * IC12(h)) * hitZ(h), seg),
    M22 |-> Sum(LAMBDA h : IC22(h), seg),
    M24 |-> Sum(LAMBDA h : IC22(h) * hitZ(h), seg),
    M44 |-> Sum(LAMBDA h : IC22(h) * hitZ(h) * hitZ(h), seg),
    B2  |-> Sum(LAMBDA h : hitX(h) * IC12(h) + hitY(h) * IC22(h), seg),
    B4  |-> Sum(LAMBDA h : (hitX(h) * IC12(h) + hitY(h) * IC22(h)) * hitZ(h), seg) ]

solve(m) ==
  [ Du |-> m.M11 * m.M33 - m.M13 * m.M13,
    Dv |-> m.M22 * m.M44 - m.M24 * m.M24,
    P1 |-> m.M33 * m.B1 - m.M13 * m.B3,
    P3 |-> m.M11 * m.B3 - m.M13 * m.B1,
    P2 |-> m.M44 * m.B2 - m.M24 * m.B4,
    P4 |-> m.M22 * m.B4 - m.M24 * m.B2 ]

\* chsq: the sum over the hits of du*du*IC(1,1) + 2*du*dv*IC(1,2) + dv*dv*IC(2,2)
chsq(p, seg) ==
  RAdd(Rat(Sum(LAMBDA h : IC11(h) * (p.P1 + p.P3 * hitZ(h) - p.Du * hitX(h))
                                  * (p.P1 + p.P3 * hitZ(h) - p.Du * hitX(h)), seg),
           p.Du * p.Du),
       Rat(Sum(LAMBDA h : IC22(h) * (p.P2 + p.P4 * hitZ(h) - p.Dv * hitY(h))
                                  * (p.P2 + p.P4 * hitZ(h) - p.Dv * hitY(h)), seg),
           p.Dv * p.Dv))

updateParameters(seg) ==
  CHOOSE fit \in
    { [ intercept |-> << Rat(p.P1, p.Du), Rat(p.P2, p.Dv) >>,
        slope_u |-> Rat(p.P3, p.Du), slope_v |-> Rat(p.P4, p.Dv),
        chi2 |-> chsq(p, seg) ]
      : p \in { solve(m) : m \in { normalEquations(seg) } } } : TRUE

(***************************************************************************)
(* hasHitOnLayer, addHit, isHitNearSegment.                                *)
(***************************************************************************)
hasHitOnLayerFirstOnly(seg, layer) ==
  Len(seg) > 0 /\ hitLayer(seg[1]) = layer
hasHitOnLayer(seg, layer) == \E k \in 1 .. Len(seg) : hitLayer(seg[k]) = layer

\* addHit returns true (and appends) unless aHit is already in the segment
addHitOkInverted(seg, aHit) == \A k \in 1 .. Len(seg) : seg[k] = aHit
addHitOk(seg, aHit) == \A k \in 1 .. Len(seg) : seg[k] # aHit
addHit(seg, aHit) == IF addHitOk(seg, aHit) THEN Append(seg, aHit) ELSE seg

\* LocalX - hit x = (ix/id + (su/sd) z) - x, over the denominator id*sd;
\* RdeltaPhi is its absolute value and deltaPhi = RdeltaPhi / R.
isHitNearSegment(h, intercept, slope_u, slope_v) ==
  LET id == intercept[1][2]
      sd == slope_u[2]
      RdeltaPhi == Abs(intercept[1][1] * sd + slope_u[1] * hitZ(h) * id
                       - hitX(h) * id * sd)
  IN  /\ RdeltaPhi < dRPhiFineMax * id * sd
      /\ RdeltaPhi < dPhiFineMax * RChamber * id * sd

(***************************************************************************)
(* The first loop of tryAddingHitsToSegment: the proto segment, the close  *)
(* hits and whether addHit has failed.  scanHit is the body of the loop    *)
(* for the hit at position k, ExtensionScan the loop from position k on.   *)
(***************************************************************************)
scanHit(k, st) ==
  LET h == rechits[k]
      layer == hitLayer(h)
  IN  IF k = i1 \/ k = i2 \/ usedHits[k]
      THEN st
      ELSE IF isHitNearSegment(h, protoIntercept, protoSlope_u, protoSlope_v)
      THEN IF ~hasHitOnLayer(st.seg, layer)
           THEN [ seg |-> addHit(st.seg, h), close |-> st.close,
                  failed |-> st.failed \/ ~addHitOk(st.seg, h) ]
           ELSE [ seg |-> st.seg, close |-> Append(st.close, h),
                  failed |-> st.failed ]
      ELSE st

RECURSIVE ExtensionScan(_, _)
ExtensionScan(k, st) ==
  IF k > Len(rechits)
  THEN st
  ELSE CHOOSE r \in { ExtensionScan(k + 1, next) : next \in { scanHit(k, st) } } : TRUE

(***************************************************************************)
(* compareProtoSegment(h, layer): the members after the call.              *)
(***************************************************************************)
\* the loop that erases the hits of the layer from the proto segment
eraseLayerFirst(seg, layer) ==
  IF seg # << >> /\ hitLayer(seg[1]) = layer THEN Tail(seg) ELSE seg
eraseLayer(seg, layer) == SelectSeq(seg, LAMBDA x : hitLayer(x) # layer)

\* "if ( (protoChi2 > old_protoChi2) || ( !ok ) )": the snapshot is restored
restoreOldFlipped(newChi2, oldChi2, ok) == RLess(newChi2, oldChi2) \/ ~ok
restoreOldOnTie(newChi2, oldChi2, ok) == ~RLess(newChi2, oldChi2) \/ ~ok
restoreOld(newChi2, oldChi2, ok) == RGreater(newChi2, oldChi2) \/ ~ok

\* the restore without "protoSegment = old_protoSegment"
comparedKeepsHits(ok, added, fit) ==
  LET newChi2 == IF ok THEN fit.chi2 ELSE protoChi2
  IN  IF RGreater(newChi2, protoChi2) \/ ~ok
      THEN [ ok |-> ok, newChi2 |-> newChi2, restored |-> TRUE,
             segment |-> added, chi2 |-> protoChi2,
             intercept |-> protoIntercept, slope_u |-> protoSlope_u,
             slope_v |-> protoSlope_v, direction |-> protoDirection ]
      ELSE [ ok |-> ok, newChi2 |-> newChi2, restored |-> FALSE,
             segment |-> added, chi2 |-> fit.chi2,
             intercept |-> fit.intercept, slope_u |-> fit.slope_u,
             slope_v |-> fit.slope_v, direction |-> protoDirection ]

\* lines 445-454, fit being the result of updateParameters
compared(ok, added, fit) ==
  LET newChi2 == IF ok THEN fit.chi2 ELSE protoChi2
  IN  IF restoreOld(newChi2, protoChi2, ok)
      THEN [ ok |-> ok, newChi2 |-> newChi2, restored |-> TRUE,
             segment |-> protoSegment, chi2 |-> protoChi2,
             intercept |-> protoIntercept, slope_u |-> protoSlope_u,
             slope_v |-> protoSlope_v, direction |-> protoDirection ]
      ELSE [ ok |-> ok, newChi2 |-> newChi2, restored |-> FALSE,
             segment |-> added, chi2 |-> fit.chi2,
             intercept |-> fit.intercept, slope_u |-> fit.slope_u,
             slope_v |-> fit.slope_v, direction |-> protoDirection ]

compareProtoSegment(h, layer) ==
  LET erased == eraseLayer(protoSegment, layer)
      ok == addHitOk(erased, h)
      added == addHit(erased, h)
  IN  CHOOSE r \in { compared(ok, added, fit) : fit \in { updateParameters(added) } } : TRUE

(***************************************************************************)
(* flagHitsAsUsed: the flags after the call.                               *)
(***************************************************************************)
\* the flags of this segment only
flagHitsAsUsedFresh(used, seg, close) ==
  [ k \in 1 .. Len(used) |->
      rechits[k] \in Range(seg) \/ rechits[k] \in Range(close) ]
flagHitsAsUsed(used, seg, close) ==
  [ k \in 1 .. Len(used) |->
      used[k] \/ rechits[k] \in Range(seg) \/ rechits[k] \in Range(close) ]

(***************************************************************************)
(* The parts of buildSegments.                                             *)
(***************************************************************************)
\* lines 79-90: the hits and their layers are reversed together
reversedOrderNoSign(ch) == layerZ(ch, 1) > layerZ(ch, NLayers)
reversedOrder(ch) ==
  LET z1 == layerZ(ch, 1)
      z6 == layerZ(ch, NLayers)
  IN  (z1 > 0 /\ z1 > z6) \/ (z1 < 0 /\ z1 < z6)

\* lines 70-90: the layer index of the hits, and the two lists in working order
normalization(ch, hits) ==
  LET li == [ k \in 1 .. Len(hits) |-> hitLayer(hits[k]) ]
  IN  IF reversedOrder(ch)
      THEN [ rechits |-> Reverse(hits), layerIndex |-> Reverse(li) ]
      ELSE [ rechits |-> hits, layerIndex |-> li ]

\* lines 119-131: the slopes of the seed pair at positions a and b.  Both
\* points are h1->localPosition(), seen from the layer of h1 and of h2.
seedSlope_u(a, b) ==
  LET u1 == hitU(rechits[a])
      dz == layerZ(theChamber, layerIndex[b]) - layerZ(theChamber, layerIndex[a])
  IN  Rat(toChamberX(theChamber, layerIndex[b], u1)
          - toChamberX(theChamber, layerIndex[a], u1), dz)
seedSlope_v(a, b) ==
  LET v1 == hitV(rechits[a])
      dz == layerZ(theChamber, layerIndex[b]) - layerZ(theChamber, layerIndex[a])
  IN  Rat(toChamberY(theChamber, layerIndex[b], v1)
          - toChamberY(theChamber, layerIndex[a], v1), dz)

\* "fabs(slope) > max"
slopeTooLargeNoAbs(slope, max) == RGreater(slope, RInt(max))
slopeTooLarge(slope, max) == RGreater(RAbs(slope), RInt(max))

\* line 110: "i2 > ib", i2 being a position counted from 1
secondSeedLeftWithFirst(k) == k > 0
secondSeedLeft(k) == k > 1

\* lines 145-146
iaddOnce(n) == IF n > BusyChamber THEN 1 ELSE 0
iadd(n) == (IF n > BusyChamber THEN 1 ELSE 0) + (IF n > VeryBusyChamber THEN 1 ELSE 0)

\* line 147
segokOneShort(seg, n) == ~(Len(seg) < minHitsPerSegment + iadd(n) - 1)
segok(seg, n) == ~(Len(seg) < minHitsPerSegment + iadd(n))

\* line 174
fewHitsLeft(n, seg) == n - Len(seg) < MinHitsLeft

\* line 175
manySegmentsLate(segs) == Len(segs) > MaxSegmentsBeforeReturn + 1
manySegments(segs) == Len(segs) > MaxSegmentsBeforeReturn

\* lines 157-165: the direction, up to its norm
localDirection(slope_u, slope_v) ==
  LET directionSign == chamberZ(theChamber)
      s == RInt(IF directionSign > 0 THEN 1 ELSE -1)
  IN  << RMul(s, slope_u), RMul(s, slope_v), s >>

(***************************************************************************)
(* The state after construction and the call of run(aChamber, rechits).    *)
(* The constructor sets the configuration only: the numeric members are    *)
(* indeterminate until buildSegments assigns them.                         *)
(***************************************************************************)
Indeterminate == { RInt(0), RInt(-3) }

NoCall ==
  [ called |-> FALSE, h |-> 0, layer |-> 0, ok |-> TRUE, newChi2 |-> RInt(0),
    restored |-> FALSE, segment |-> << >>, chi2 |-> RInt(0),
    intercept |-> << RInt(0), RInt(0) >>, slope_u |-> RInt(0),
    slope_v |-> RInt(0), direction |-> << RInt(0), RInt(0), RInt(0) >> ]

Constructed ==
  /\ pc = "run"
  /\ theChamber \in { ch \in Chambers : ValidChamber(ch) }
  /\ nHitInChamber \in HitCounts
  /\ pitch \in 0 .. MaxPitch
  /\ rechits = [ k \in 1 .. nHitInChamber |-> k ]
  /\ layerIndex = << >>
  /\ minLayersApart \in { 1, 2 }
  /\ minHitsPerSegment \in { 2, 3 }
  /\ usedHits = << >>
  /\ protoSegment = << >>
  /\ closeHits = << >>
  /\ protoChi2 = RInt(0)
  /\ protoIntercept = << RInt(0), RInt(0) >>
  /\ protoSlope_u = RInt(0)
  /\ protoSlope_v = RInt(0)
  /\ \E d \in Indeterminate : protoDirection = << d, d, d >>
  /\ i1 = 0
  /\ i2 = 0
  /\ ic = 0
  /\ segmentInChamber = << >>
  /\ old = NoCall
  /\ addFailed = FALSE
  /\ last = "construct"
  /\ entered = { }
  /\ seedPairs = 0

Init ==
  /\ Constructed
  /\ errorMatrix = [ e \in SymEntries |-> 0 ]
  /\ history = << >>

members ==
  << usedHits, protoSegment, closeHits, protoChi2, protoIntercept,
     protoSlope_u, protoSlope_v, protoDirection >>
input ==
  << theChamber, nHitInChamber, pitch, minLayersApart, minHitsPerSegment >>

(***************************************************************************)
(* buildSegments, lines 61-94.                                             *)
(***************************************************************************)
\* lines 93-94: "BoolContainer used_ini(rechits.size(), false)"
used_iniResized(n) ==
  [ k \in 1 .. n |-> IF k <= Len(usedHits) THEN usedHits[k] ELSE FALSE ]
used_ini(n) == [ k \in 1 .. n |-> FALSE ]

\* line 68: "nHitInChamber < 3"
tooFewHitsLate(n) == n < MinHitsInChamber - 1
tooFewHits(n) == n < MinHitsInChamber

\* line 68: fewer than 3 hits
TooFewHits ==
  /\ pc = "run"
  /\ tooFewHits(nHitInChamber)
  /\ pc' = "returned"
  /\ last' = "TooFewHits"
  /\ UNCHANGED << aside, entered, seedPairs,
                  input, rechits, layerIndex, members, i1, i2, ic,
                  segmentInChamber, old, addFailed >>

\* lines 70-97: the layer index, the ordering and the used flags
Begin ==
  /\ pc = "run"
  /\ ~tooFewHits(nHitInChamber)
  /\ \E n \in { normalization(theChamber, rechits) } :
         rechits' = n.rechits /\ layerIndex' = n.layerIndex
  /\ usedHits' = used_ini(nHitInChamber)
  /\ i1' = 1
  /\ pc' = "for_i1"
  /\ last' = "Begin"
  /\ UNCHANGED << aside, entered, seedPairs,
                  input, protoSegment, closeHits, protoChi2, protoIntercept,
                  protoSlope_u, protoSlope_v, protoDirection, i2, ic,
                  segmentInChamber, old, addFailed >>

(***************************************************************************)
(* The loop over the first seed, lines 100-107 and 181.                    *)
(***************************************************************************)
LoopEnd ==
  /\ pc = "for_i1"
  /\ ~(i1 <= Len(rechits))
  /\ pc' = "returned"
  /\ last' = "LoopEnd"
  /\ UNCHANGED << aside, entered, seedPairs,
                  input, rechits, layerIndex, members, i1, i2, ic,
                  segmentInChamber, old, addFailed >>

SkipUsedFirst ==
  /\ pc = "for_i1"
  /\ i1 <= Len(rechits)
  /\ usedHits[i1]
  /\ i1' = i1 + 1
  /\ last' = "SkipUsedFirst"
  /\ UNCHANGED << aside, entered, seedPairs,
                  pc, input, rechits, layerIndex, members, i2, ic,
                  segmentInChamber, old, addFailed >>

FirstSeed ==
  /\ pc = "for_i1"
  /\ i1 <= Len(rechits)
  /\ ~usedHits[i1]
  /\ i2' = Len(rechits)
  /\ pc' = "for_i2"
  /\ last' = "FirstSeed"
  /\ UNCHANGED << aside, entered, seedPairs,
                  input, rechits, layerIndex, members, i1, ic,
                  segmentInChamber, old, addFailed >>

(***************************************************************************)
(* The loop over the second seed, lines 110-138.                           *)
(***************************************************************************)
SecondLoopEnd ==
  /\ pc = "for_i2"
  /\ ~secondSeedLeft(i2)
  /\ i1' = i1 + 1
  /\ pc' = "for_i1"
  /\ last' = "SecondLoopEnd"
  /\ UNCHANGED << aside, entered, seedPairs,
                  input, rechits, layerIndex, members, i2, ic,
                  segmentInChamber, old, addFailed >>

SkipUsedSecond ==
  /\ pc = "for_i2"
  /\ secondSeedLeft(i2)
  /\ usedHits[i2]
  /\ i2' = i2 - 1
  /\ last' = "SkipUsedSecond"
  /\ seedPairs' = seedPairs + 1
  /\ UNCHANGED << aside, entered,
                  pc, input, rechits, layerIndex, members, i1, ic,
                  segmentInChamber, old, addFailed >>

SkipLayersApart ==
  /\ pc = "for_i2"
  /\ secondSeedLeft(i2)
  /\ ~usedHits[i2]
  /\ layerIndex[i2] - layerIndex[i1] < minLayersApart
  /\ i2' = i2 - 1
  /\ last' = "SkipLayersApart"
  /\ seedPairs' = seedPairs + 1
  /\ UNCHANGED << aside, entered,
                  pc, input, rechits, layerIndex, members, i1, ic,
                  segmentInChamber, old, addFailed >>

\* lines 117-131 are common to the three steps below
SeedPairAt ==
  /\ pc = "for_i2"
  /\ secondSeedLeft(i2)
  /\ ~usedHits[i2]
  /\ ~(layerIndex[i2] - layerIndex[i1] < minLayersApart)
  /\ protoIntercept' = << RInt(hitU(rechits[i1])), RInt(hitV(rechits[i1])) >>
  /\ protoSlope_u' = seedSlope_u(i1, i2)
  /\ protoSlope_v' = seedSlope_v(i1, i2)

RejectTheta ==
  /\ SeedPairAt
  /\ slopeTooLarge(seedSlope_v(i1, i2), tanThetaMax)
  /\ protoSegment' = << >>
  /\ i2' = i2 - 1
  /\ last' = "RejectTheta"
  /\ seedPairs' = seedPairs + 1
  /\ UNCHANGED << aside, entered,
                  pc, input, rechits, layerIndex, usedHits, closeHits,
                  protoChi2, protoDirection, i1, ic, segmentInChamber, old,
                  addFailed >>

RejectPhi ==
  /\ SeedPairAt
  /\ ~slopeTooLarge(seedSlope_v(i1, i2), tanThetaMax)
  /\ slopeTooLarge(seedSlope_u(i1, i2), tanPhiMax)
  /\ protoSegment' = << >>
  /\ i2' = i2 - 1
  /\ last' = "RejectPhi"
  /\ seedPairs' = seedPairs + 1
  /\ UNCHANGED << aside, entered,
                  pc, input, rechits, layerIndex, usedHits, closeHits,
                  protoChi2, protoDirection, i1, ic, segmentInChamber, old,
                  addFailed >>

Seed ==
  /\ SeedPairAt
  /\ ~slopeTooLarge(seedSlope_v(i1, i2), tanThetaMax)
  /\ ~slopeTooLarge(seedSlope_u(i1, i2), tanPhiMax)
  /\ protoSegment' = << rechits[i1], rechits[i2] >>
  /\ entered' = { rechits[i1], rechits[i2] }
  /\ pc' = "tryAddingHitsToSegment"
  /\ last' = "Seed"
  /\ seedPairs' = seedPairs + 1
  /\ UNCHANGED << aside,
                  input, rechits, layerIndex, usedHits, closeHits, protoChi2,
                  protoDirection, i1, i2, ic, segmentInChamber, old, addFailed >>

(***************************************************************************)
(* tryAddingHitsToSegment, lines 191-233.                                  *)
(***************************************************************************)
\* lines 202-220: closeHits is cleared and the hits are scanned once
FirstPass ==
  /\ pc = "tryAddingHitsToSegment"
  /\ \E r \in { ExtensionScan(1, [ seg |-> protoSegment, close |-> << >>,
                                      failed |-> FALSE ]) } :
         /\ protoSegment' = r.seg
         /\ closeHits' = r.close
         /\ addFailed' = (addFailed \/ r.failed)
         /\ entered' = entered \cup Range(r.seg) \cup Range(r.close)
  /\ pc' = "first_pass_done"
  /\ last' = "FirstPass"
  /\ UNCHANGED << aside, seedPairs,
                  input, rechits, layerIndex, usedHits, protoChi2,
                  protoIntercept, protoSlope_u, protoSlope_v, protoDirection,
                  i1, i2, ic, segmentInChamber, old >>

\* line 223: nothing more to do
NoSecondPass ==
  /\ pc = "first_pass_done"
  /\ (Len(protoSegment) < 3 \/ Len(closeHits) < 1)
  /\ pc' = "segok"
  /\ last' = "NoSecondPass"
  /\ UNCHANGED << aside, entered, seedPairs,
                  input, rechits, layerIndex, members, i1, i2, ic,
                  segmentInChamber, old, addFailed >>

\* line 224: the fit before the second pass
Refit ==
  /\ pc = "first_pass_done"
  /\ ~(Len(protoSegment) < 3 \/ Len(closeHits) < 1)
  /\ \E fit \in { updateParameters(protoSegment) } :
         /\ protoIntercept' = fit.intercept
         /\ protoSlope_u' = fit.slope_u
         /\ protoSlope_v' = fit.slope_v
         /\ protoChi2' = fit.chi2
  /\ ic' = 1
  /\ pc' = "second_pass"
  /\ last' = "Refit"
  /\ UNCHANGED << aside, entered, seedPairs,
                  input, rechits, layerIndex, usedHits, protoSegment,
                  closeHits, protoDirection, i1, i2, segmentInChamber, old,
                  addFailed >>

\* lines 227-231: one call of compareProtoSegment (lines 423-455)
Compare ==
  /\ pc = "second_pass"
  /\ ic <= Len(closeHits)
  /\ \E h \in { closeHits[ic] } :
     \E layer \in { hitLayer(h) } :
     \E r \in { compareProtoSegment(h, layer) } :
         /\ old' = [ called |-> TRUE, h |-> h, layer |-> layer, ok |-> r.ok,
                     newChi2 |-> r.newChi2, restored |-> r.restored,
                     segment |-> protoSegment, chi2 |-> protoChi2,
                     intercept |-> protoIntercept, slope_u |-> protoSlope_u,
                     slope_v |-> protoSlope_v, direction |-> protoDirection ]
         /\ protoSegment' = r.segment
         /\ protoChi2' = r.chi2
         /\ protoIntercept' = r.intercept
         /\ protoSlope_u' = r.slope_u
         /\ protoSlope_v' = r.slope_v
         /\ protoDirection' = r.direction
         /\ addFailed' = (addFailed \/ ~r.ok)
  /\ ic' = ic + 1
  /\ last' = "Compare"
  /\ UNCHANGED << aside, entered, seedPairs,
                  pc, input, rechits, layerIndex, usedHits, closeHits, i1, i2,
                  segmentInChamber >>

SecondPassEnd ==
  /\ pc = "second_pass"
  /\ ~(ic <= Len(closeHits))
  /\ pc' = "segok"
  /\ last' = "SecondPassEnd"
  /\ UNCHANGED << aside, entered, seedPairs,
                  input, rechits, layerIndex, members, i1, i2, ic,
                  segmentInChamber, old, addFailed >>

(***************************************************************************)
(* buildSegments, lines 143-179: the segment is kept or dropped.           *)
(***************************************************************************)
\* segok is false: on to the next second seed
DropSegment ==
  /\ pc = "segok"
  /\ ~segok(protoSegment, nHitInChamber)
  /\ i2' = i2 - 1
  /\ pc' = "for_i2"
  /\ last' = "DropSegment"
  /\ UNCHANGED << aside, entered, seedPairs,
                  input, rechits, layerIndex, members, i1, ic,
                  segmentInChamber, old, addFailed >>

\* lines 154-172 are common to the three steps below
KeepSegment ==
  /\ pc = "segok"
  /\ segok(protoSegment, nHitInChamber)
  /\ \E fit \in { updateParameters(protoSegment) } :
     \E dir \in { localDirection(fit.slope_u, fit.slope_v) } :
         /\ protoIntercept' = fit.intercept
         /\ protoSlope_u' = fit.slope_u
         /\ protoSlope_v' = fit.slope_v
         /\ protoChi2' = fit.chi2
         /\ protoDirection' = dir
         /\ segmentInChamber' =
              Append(segmentInChamber,
                     [ hits |-> protoSegment, intercept |-> fit.intercept,
                       direction |-> dir, chi2 |-> fit.chi2 ])
  /\ UNCHANGED << aside, entered, seedPairs,
                  input, rechits, layerIndex, protoSegment, closeHits, i1, ic,
                  old, addFailed >>

\* line 174
ReturnFewHitsLeft ==
  /\ KeepSegment
  /\ fewHitsLeft(nHitInChamber, protoSegment)
  /\ pc' = "returned"
  /\ last' = "ReturnFewHitsLeft"
  /\ UNCHANGED << usedHits, i2 >>

\* line 175
ReturnManySegments ==
  /\ KeepSegment
  /\ ~fewHitsLeft(nHitInChamber, protoSegment)
  /\ manySegments(segmentInChamber')
  /\ pc' = "returned"
  /\ last' = "ReturnManySegments"
  /\ UNCHANGED << usedHits, i2 >>

\* line 177 and on to the next second seed
FlagAndContinue ==
  /\ KeepSegment
  /\ ~fewHitsLeft(nHitInChamber, protoSegment)
  /\ ~manySegments(segmentInChamber')
  /\ usedHits' = flagHitsAsUsed(usedHits, protoSegment, closeHits)
  /\ i2' = i2 - 1
  /\ pc' = "for_i2"
  /\ last' = "FlagAndContinue"

Next ==
  \/ TooFewHits
  \/ Begin
  \/ LoopEnd
  \/ SkipUsedFirst
  \/ FirstSeed
  \/ SecondLoopEnd
  \/ SkipUsedSecond
  \/ SkipLayersApart
  \/ RejectTheta
  \/ RejectPhi
  \/ Seed
  \/ FirstPass
  \/ NoSecondPass
  \/ Refit
  \/ Compare
  \/ SecondPassEnd
  \/ DropSegment
  \/ ReturnFewHitsLeft
  \/ ReturnManySegments
  \/ FlagAndContinue

Spec == Init /\ [][Next]_vars

(***************************************************************************)
(* Three calls of run() on one algorithm object: the first on any chamber  *)
(* and hit list, the second on another chamber, the third on the chamber   *)
(* and hit list of the first.  A call starts with the members as the call  *)
(* before has left them; history keeps the input and the result of the     *)
(* calls that have returned.                                               *)
(***************************************************************************)
OtherInputs ==
  { << [ z1 |-> z[1], z6 |-> z[2], stag |-> FALSE ], MaxFewHits, 1 >> :
      z \in { << -20, -10 >>, << 10, 20 >> } }

RunAgain ==
  /\ pc = "returned"
  /\ Len(history) < 2
  /\ history' = Append(history,
                       [ input |-> << theChamber, nHitInChamber, pitch >>,
                         result |-> segmentInChamber,
                         left |-> [ usedHits |-> usedHits,
                                    protoSegment |-> protoSegment,
                                    closeHits |-> closeHits,
                                    protoChi2 |-> protoChi2 ] ])
  /\ \E in \in IF Len(history) = 0 THEN OtherInputs ELSE { history[1].input } :
         /\ theChamber' = in[1]
         /\ nHitInChamber' = in[2]
         /\ pitch' = in[3]
         /\ rechits' = [ k \in 1 .. in[2] |-> k ]
  /\ layerIndex' = << >>
  /\ i1' = 0 /\ i2' = 0 /\ ic' = 0
  /\ segmentInChamber' = << >>
  /\ old' = NoCall
  /\ addFailed' = FALSE
  /\ entered' = { }
  /\ seedPairs' = 0
  /\ pc' = "run"
  /\ last' = "RunAgain"
  /\ UNCHANGED << minLayersApart, minHitsPerSegment, members, errorMatrix >>

NextSequential == Next \/ RunAgain

SpecSequential == Init /\ [][NextSequential]_vars

(***************************************************************************)
(* The ordering step of buildSegments (lines 70-90) on its own: the step   *)
(* is applied again and again to the lists it has produced.                *)
(***************************************************************************)
Normalize ==
  /\ pc = "run"
  /\ ~tooFewHits(nHitInChamber)
  /\ Len(history) < MaxNormalizations
  /\ \E n \in { normalization(theChamber, rechits) } :
         rechits' = n.rechits /\ layerIndex' = n.layerIndex
  /\ history' = Append(history, [ rechits |-> rechits, layerIndex |-> layerIndex ])
  /\ last' = "Normalize"
  /\ UNCHANGED << pc, input, members, i1, i2, ic, segmentInChamber, old,
                  addFailed, entered, seedPairs, errorMatrix >>

NextNormalizer == Normalize

SpecNormalizer == Init /\ [][NextNormalizer]_vars

(***************************************************************************)
(* The reordering at the end of calculateError (lines 523-540) on its own: *)
(* the matrix a is any symmetric 4x4 matrix of small entries, and the      *)
(* reordering is applied to the matrix it has produced.                    *)
(***************************************************************************)
InitError ==
  /\ Constructed
  /\ theChamber = [ z1 |-> 10, z6 |-> 20, stag |-> FALSE ]
  /\ nHitInChamber = 0
  /\ pitch = 0
  /\ minLayersApart = 1
  /\ minHitsPerSegment = 2
  /\ protoDirection = << RInt(0), RInt(0), RInt(0) >>
  /\ errorMatrix \in [ SymEntries -> 0 .. MaxEntry ]
  /\ history = << >>

Reorder ==
  /\ Len(history) < MaxReorders
  /\ errorMatrix' = reorder(errorMatrix)
  /\ history' = Append(history, errorMatrix)
  /\ last' = "Reorder"
  /\ UNCHANGED << pc, input, rechits, layerIndex, members, i1, i2, ic,
                  segmentInChamber, old, addFailed, entered, seedPairs >>

NextError == Reorder

SpecError == InitError /\ [][NextError]_vars

(***************************************************************************)
(* Vocabulary of the properties.                                           *)
(***************************************************************************)
\* the position in rechits of the hit h
posOf(h) == CHOOSE k \in 1 .. Len(rechits) : rechits[k] = h
\* the number of hits whose used flag is clear
UnusedCount == Cardinality({ k \in 1 .. Len(usedHits) : ~usedHits[k] })
\* no two hits of the sequence lie on one layer
DistinctLayers(seg) ==
  \A a, b \in 1 .. Len(seg) : a # b => hitLayer(seg[a]) # hitLayer(seg[b])
\* a proto segment is being built for the seed pair (i1, i2)
Building ==
  pc \in { "tryAddingHitsToSegment", "first_pass_done", "second_pass", "segok" }

(***************************************************************************)
(* C1.  As claimed: the sequence returned by buildSegments holds at most   *)
(* 4 segments.                                                             *)
(***************************************************************************)
C1_AtMostFourSegments == Len(segmentInChamber) <= 4

\* C1, amended: buildSegments never holds more than 5 segments; it returns
\* as soon as the fifth one has been appended.
C1_AtMostFiveSegments ==
  /\ Len(segmentInChamber) <= 5
  /\ Len(segmentInChamber) = 5 => pc = "returned"

C1_Witness == pc = "returned" /\ Len(segmentInChamber) = 5

(***************************************************************************)
(* C2.  While a proto segment is being built, none of its hits (first      *)
(* seed, second seed, hits added by the scan or by compareProtoSegment)    *)
(* has its used flag set.                                                  *)
(***************************************************************************)
C2_UsedHitNeverInProto ==
  Building =>
    \A k \in 1 .. Len(protoSegment) : ~usedHits[posOf(protoSegment[k])]

(***************************************************************************)
(* C3.  buildSegments does not go on after a segment is kept, and tries no *)
(* further seed pair, while fewer than 3 hits have their used flag clear.  *)
(***************************************************************************)
C3_ReturnsWhenFewUnused ==
  /\ last = "FlagAndContinue" => UnusedCount >= 3
  /\ (Len(segmentInChamber) > 0 /\ last \in { "Seed", "RejectTheta", "RejectPhi" })
       => UnusedCount >= 3

C5_MinimumHits ==
  LET b == IF nHitInChamber <= 20 THEN 0 ELSE IF nHitInChamber <= 30 THEN 1 ELSE 2
  IN  \A s \in 1 .. Len(segmentInChamber) :
        Len(segmentInChamber[s].hits) >= minHitsPerSegment + b

C5_Witness ==
  /\ nHitInChamber > 30
  /\ Len(segmentInChamber) >= 2
  /\ last = "DropSegment"
  /\ Len(protoSegment) = minHitsPerSegment + 1

(***************************************************************************)
(* C6.  With fewer than 3 hits buildSegments returns the empty sequence:   *)
(* no seed is chosen, no proto segment is made, addHit is not called.      *)
(***************************************************************************)
C6_FewHitsNoSegments ==
  nHitInChamber < 3 =>
    /\ segmentInChamber = << >>
    /\ protoSegment = << >>
    /\ i1 = 0 /\ i2 = 0
    /\ ~addFailed
    /\ pc \in { "run", "returned" }

C6_Witness == pc = "returned" /\ nHitInChamber = 2 /\ last = "TooFewHits"

(***************************************************************************)
(* C7.  After every call of compareProtoSegment the chi-square of the      *)
(* proto segment is at most the chi-square it had before the call.         *)
(***************************************************************************)
C7_Chi2NotWorse == last = "Compare" => RLeq(protoChi2, old.chi2)

C7_Witness ==
  last = "Compare" /\ old.ok /\ ~old.restored /\ RLess(protoChi2, old.chi2)

(***************************************************************************)
(* C8.  When compareProtoSegment has put the candidate in and the refit    *)
(* chi-square is greater than the one saved, the call leaves the hits (and *)
(* their order), the intercept, the slopes, the direction and the          *)
(* chi-square as they were before it.                                      *)
(***************************************************************************)
C8_RollbackExact ==
  (last = "Compare" /\ old.ok /\ RGreater(old.newChi2, old.chi2)) =>
    /\ protoSegment = old.segment
    /\ protoIntercept = old.intercept
    /\ protoSlope_u = old.slope_u
    /\ protoSlope_v = old.slope_v
    /\ protoDirection = old.direction
    /\ protoChi2 = old.chi2

C8_Witness ==
  /\ last = "Compare" /\ old.ok /\ RGreater(old.newChi2, old.chi2)
  /\ Len(segmentInChamber) > 0

(***************************************************************************)
(* C9.  A seed pair whose slope estimate exceeds tanThetaMax or tanPhiMax  *)
(* makes no proto segment: the step leaves the proto segment empty, goes   *)
(* on to the next second seed and changes neither the used flags, nor the  *)
(* close hits, nor the segments built.                                     *)
(***************************************************************************)
SeedSlopeExceeds ==
  /\ pc = "for_i2" /\ i2 > 1 /\ ~usedHits[i2]
  /\ layerIndex[i2] - layerIndex[i1] >= minLayersApart
  /\ \/ RGreater(RAbs(seedSlope_v(i1, i2)), RInt(tanThetaMax))
     \/ RGreater(RAbs(seedSlope_u(i1, i2)), RInt(tanPhiMax))

C9_RejectedSeedNoEffect ==
  [][ SeedSlopeExceeds =>
        /\ protoSegment' = << >>
        /\ pc' = "for_i2" /\ i1' = i1 /\ i2' = i2 - 1
        /\ UNCHANGED << usedHits, closeHits, segmentInChamber, rechits, layerIndex >>
    ]_vars

C9_Witness ==
  /\ last \in { "RejectTheta", "RejectPhi" }
  /\ closeHits # << >>
  /\ Len(segmentInChamber) > 0
  /\ UnusedCount < Len(usedHits)

(***************************************************************************)
(* C10.  addHit never returns false: neither the scan nor                  *)
(* compareProtoSegment calls it with a hit that is in the proto segment.   *)
(***************************************************************************)
C10_AddHitNeverFails == ~addFailed

C10_Witness ==
  /\ last = "Compare" /\ old.ok
  /\ Len(old.segment) > 2
  /\ old.h \in Range(protoSegment)

(***************************************************************************)
(* C11.  Once usedHits has been set to all-false, no step clears a flag:   *)
(* every step leaves each flag as it was or changes it from false to true. *)
(***************************************************************************)
C11_UsedFlagsOnlySet ==
  [][ pc # "run" =>
        /\ Len(usedHits') = Len(usedHits)
        /\ \A k \in 1 .. Len(usedHits) : usedHits[k] => usedHits'[k]
    ]_vars

\* the flags of an earlier segment are still set after a later segment's
C11_Witness ==
  /\ last = "FlagAndContinue"
  /\ Len(segmentInChamber) >= 2
  /\ \E k \in 1 .. Len(usedHits) :
       /\ usedHits[k]
       /\ rechits[k] \notin Range(protoSegment)
       /\ rechits[k] \notin Range(closeHits)

(***************************************************************************)
(* C12.  As claimed: the ordering step applied to lists that an earlier    *)
(* application has produced for the same chamber leaves both lists as they *)
(* are.                                                                    *)
(***************************************************************************)
C12_NormalizeIdempotent ==
  Len(history) >= 2 =>
    /\ rechits = history[Len(history)].rechits
    /\ layerIndex = history[Len(history)].layerIndex

\* C12, amended: applied to lists it has produced, the ordering step leaves
\* both lists as they are in a chamber it does not reverse; in a chamber it
\* reverses (z1 > 0 and z1 > z6, or z1 < 0 and z1 < z6) it reverses both
\* lists again, so that two applications give the lists back.  The layer
\* index stays the list of the layers of the hits.
C12_NormalizeReversesAgain ==
  Len(history) >= 2 =>
    LET prev == history[Len(history)]
        z1 == layerZ(theChamber, 1)
        z6 == layerZ(theChamber, NLayers)
    IN  /\ IF (z1 > 0 /\ z1 > z6) \/ (z1 < 0 /\ z1 < z6)
           THEN /\ rechits = Reverse(prev.rechits)
                /\ layerIndex = Reverse(prev.layerIndex)
                /\ Len(history) >= 3 =>
                     /\ rechits = history[Len(history) - 1].rechits
                     /\ layerIndex = history[Len(history) - 1].layerIndex
           ELSE /\ rechits = prev.rechits
                /\ layerIndex = prev.layerIndex
        /\ \A k \in 1 .. Len(rechits) : layerIndex[k] = hitLayer(rechits[k])

C12_Witness ==
  /\ Len(history) = 3
  /\ nHitInChamber = 7
  /\ rechits # history[3].rechits
  /\ layerIndex # history[3].layerIndex
  /\ rechits = history[2].rechits

(***************************************************************************)
(* C13.  The reordering of calculateError gives a symmetric matrix whose   *)
(* top-left 2x2 block is the bottom-right block of the matrix it was given *)
(* and the other way round; the entries (1,3), (1,4), (2,3), (2,4) and     *)
(* their transposes are as they were; reordering twice gives the matrix    *)
(* back.                                                                   *)
(***************************************************************************)
C13_ReorderSwapsBlocks ==
  Len(history) >= 1 =>
    LET hold == history[Len(history)]
    IN  /\ \A i, j \in 1 .. 4 : entry(errorMatrix, i, j) = entry(errorMatrix, j, i)
        /\ \A i, j \in 1 .. 2 :
             /\ entry(errorMatrix, i, j) = entry(hold, i + 2, j + 2)
             /\ entry(errorMatrix, i + 2, j + 2) = entry(hold, i, j)
             /\ entry(errorMatrix, i, j + 2) = entry(hold, i, j + 2)
             /\ entry(errorMatrix, j + 2, i) = entry(hold, j + 2, i)
        /\ Len(history) >= 2 => errorMatrix = history[Len(history) - 1]

C13_Witness ==
  /\ Len(history) = 2
  /\ history[1] # history[2]
  /\ entry(errorMatrix, 1, 4) # entry(errorMatrix, 2, 3)
  /\ entry(errorMatrix, 1, 2) # entry(errorMatrix, 3, 4)
  /\ entry(errorMatrix, 1, 1) # entry(errorMatrix, 3, 3)

(***************************************************************************)
(* C14.  As claimed: compareProtoSegment keeps the candidate only if the   *)
(* addition succeeded and the refit chi-square is less than the one saved; *)
(* in every other case, an equal chi-square included, the call leaves the  *)
(* hits, the chi-square, the intercept, the slopes and the direction as    *)
(* saved.                                                                  *)
(***************************************************************************)
C14_KeptOnlyIfStrictlyBetter ==
  (last = "Compare" /\ ~(old.ok /\ RLess(old.newChi2, old.chi2))) =>
    /\ protoSegment = old.segment
    /\ protoChi2 = old.chi2
    /\ protoIntercept = old.intercept
    /\ protoSlope_u = old.slope_u
    /\ protoSlope_v = old.slope_v
    /\ protoDirection = old.direction

\* The code's rule: the candidate is kept if and only if the addition
\* succeeded and the refit chi-square is not greater than the one saved.
C14_KeptUnlessWorse ==
  last = "Compare" =>
    IF old.ok /\ RLeq(old.newChi2, old.chi2)
    THEN /\ protoSegment = Append(eraseLayer(old.segment, old.layer), old.h)
         /\ protoChi2 = old.newChi2
    ELSE /\ protoSegment = old.segment
         /\ protoChi2 = old.chi2
         /\ protoIntercept = old.intercept
         /\ protoSlope_u = old.slope_u
         /\ protoSlope_v = old.slope_v
         /\ protoDirection = old.direction

\* a candidate kept with a chi-square equal to the one saved
C14_Witness ==
  /\ last = "Compare" /\ old.ok
  /\ old.newChi2 = old.chi2
  /\ protoSegment # old.segment
  /\ old.h \in Range(protoSegment)

(***************************************************************************)
(* C15.  After flagHitsAsUsed has run for a segment that is kept, every    *)
(* hit that entered the building of the segment has its used flag set: the *)
(* two seeds, the hits added by the scan and the close hits, also a hit    *)
(* that compareProtoSegment has taken out of the proto segment.            *)
(***************************************************************************)
C15_EnteredHitsFlagged ==
  last = "FlagAndContinue" => \A h \in entered : usedHits[posOf(h)]

(***************************************************************************)
(* C17.  A proto segment with fewer hits than the threshold of the chamber *)
(* is dropped without effect on the search: from the seeding to the drop   *)
(* no step changes the used flags or the segments built, and the drop goes *)
(* on to the next second seed.                                             *)
(***************************************************************************)
BelowThreshold ==
  LET b == IF nHitInChamber <= 20 THEN 0 ELSE IF nHitInChamber <= 30 THEN 1 ELSE 2
  IN  pc = "segok" /\ Len(protoSegment) < minHitsPerSegment + b

C17_DroppedProtoNoEffect ==
  [][ /\ (pc \in { "for_i2", "tryAddingHitsToSegment", "first_pass_done",
                   "second_pass" } \/ BelowThreshold)
         => UNCHANGED << usedHits, segmentInChamber >>
      /\ BelowThreshold => pc' = "for_i2" /\ i1' = i1 /\ i2' = i2 - 1
    ]_vars

\* a proto segment of three hits or more, with close hits, is dropped after
\* a segment has been kept
C17_Witness ==
  /\ last = "DropSegment"
  /\ Len(protoSegment) >= 3
  /\ closeHits # << >>
  /\ Len(segmentInChamber) >= 1
  /\ \A k \in 1 .. Len(protoSegment) : ~usedHits[posOf(protoSegment[k])]

(***************************************************************************)
(* C19.  No hit is in two of the segments built by one call of             *)
(* buildSegments.                                                          *)
(***************************************************************************)
C19_SegmentsDisjoint ==
  \A s, t \in 1 .. Len(segmentInChamber) :
    s # t => Range(segmentInChamber[s].hits) \cap Range(segmentInChamber[t].hits) = { }

(***************************************************************************)
(* C20.  Every call of compareProtoSegment in the second pass, kept or     *)
(* restored, leaves the number of hits of the proto segment and the set of *)
(* its layers as they were: the hits of the other layers are the same, and *)
(* the hit on the candidate's layer is the one it was or the candidate.    *)
(***************************************************************************)
C20_CompareKeepsLayers ==
  last = "Compare" =>
    /\ Len(protoSegment) = Len(old.segment)
    /\ { hitLayer(h) : h \in Range(protoSegment) }
         = { hitLayer(h) : h \in Range(old.segment) }
    /\ { h \in Range(protoSegment) : hitLayer(h) # old.layer }
         = { h \in Range(old.segment) : hitLayer(h) # old.layer }
    /\ \A h \in Range(protoSegment) :
         hitLayer(h) = old.layer => (h = old.h \/ h \in Range(old.segment))

\* a call that has replaced a hit which was not the first of the proto segment
C20_Witness ==
  /\ last = "Compare" /\ ~old.restored
  /\ Len(old.segment) >= 4
  /\ old.h \in Range(protoSegment)
  /\ hitLayer(old.segment[1]) # old.layer
  /\ Range(protoSegment) # Range(old.segment)

(***************************************************************************)
(* C18.  Every call of buildSegments on H hits returns: it makes at most   *)
(* H*(H-1) passes through the loop over the seed pairs, a pass scans the   *)
(* H hits once and calls compareProtoSegment at most once for each close   *)
(* hit, the iterators stay within the hit list, and the call ends at a     *)
(* return of buildSegments, never elsewhere.  Every step brings the return *)
(* nearer: it lowers a bound on the number of steps still to come.         *)
(***************************************************************************)
C18_Bounded ==
  /\ seedPairs <= nHitInChamber * (nHitInChamber - 1) \/ nHitInChamber = 0
  /\ Len(closeHits) <= nHitInChamber
  /\ pc = "second_pass" => ic \in 1 .. Len(closeHits) + 1
  /\ pc = "for_i1" => i1 \in 1 .. nHitInChamber + 1
  /\ pc \in { "for_i2", "tryAddingHitsToSegment", "first_pass_done",
              "second_pass", "segok" }
       => i1 \in 1 .. nHitInChamber /\ i2 \in 1 .. nHitInChamber
  /\ pc \in { "run", "for_i1", "for_i2", "tryAddingHitsToSegment",
              "first_pass_done", "second_pass", "segok", "returned" }
  /\ pc = "returned" =>
       last \in { "TooFewHits", "LoopEnd", "ReturnFewHitsLeft", "ReturnManySegments" }

\* The steps still to come are bounded by StepsLeft: W steps at most for
\* each first seed, H + 6 of them for each second seed.
StepsLeft ==
  LET H == nHitInChamber
      W == (H + 1) * (H + 6) + 1
      pair == (H + 1 - i1) * W + i2 * (H + 6)
  IN  CASE pc = "run" -> (H + 2) * W
        [] pc = "for_i1" -> (H + 1 - i1) * W + W - 1
        [] pc = "for_i2" -> pair + H + 5
        [] pc = "tryAddingHitsToSegment" -> pair + H + 4
        [] pc = "first_pass_done" -> pair + H + 3
        [] pc = "second_pass" -> pair + 2 + (Len(closeHits) + 1 - ic)
        [] pc = "segok" -> pair + 1
        [] OTHER -> 0

C18_Terminates ==
  /\ [](C18_Bounded /\ StepsLeft >= 0)
  /\ [][StepsLeft' < StepsLeft]_vars

\* a call that has made all the H*(H-1) passes
C18_Witness ==
  /\ pc = "returned"
  /\ nHitInChamber > VeryBusyChamber
  /\ seedPairs = nHitInChamber * (nHitInChamber - 1)

(***************************************************************************)
(* C16.  A call of run() returns the segments that an earlier call on the  *)
(* same chamber and hit list has returned, whatever the call in between,   *)
(* on another chamber, has left in usedHits, protoSegment, closeHits,      *)
(* protoChi2, protoIntercept, the slopes and protoDirection.               *)
(***************************************************************************)
C16_SameResultAgain ==
  pc = "returned" =>
    \A k \in 1 .. Len(history) :
      history[k].input = << theChamber, nHitInChamber, pitch >>
        => history[k].result = segmentInChamber

\* the third call has built a segment, after a call on another chamber that
\* has left flags set, a proto segment and close hits
C16_Witness ==
  /\ pc = "returned" /\ Len(history) = 2
  /\ history[2].input # history[1].input
  /\ history[2].input[2] = nHitInChamber
  /\ \E k \in 1 .. nHitInChamber : history[2].left.usedHits[k]
  /\ history[2].left.protoSegment # << >>
  /\ history[2].left.closeHits # << >>
  /\ Len(segmentInChamber) >= 1
  /\ old.called

====
